---- MODULE Spec2Model ----
(***************************************************************************)
(* A model of the build graph orchestrator of src/src/Graph.ts: the        *)
(* constructor, build() with its four phases, getCache() and the parts of  *)
(* the collaborators (ModuleLoader, executionOrder, Module, Chunk,         *)
(* chunkAssignment, PluginDriver) the orchestrator relies on.              *)
(***************************************************************************)
EXTENDS Integers, Sequences, FiniteSets, TLC

\* ------------------------------------------------------------------ bounds
\* internal module ids are 1..MaxId
MaxId == 3
\* size of the project: entries + manual chunk seeds + import edges (static
\* and dynamic together)
MaxRefs == 4
\* length of the `input` option
MaxEntries == 2
\* seeds of the manualChunks option (one alias per seed)
MaxManual == 1

\* Graph objects constructed one after the other, each from the last snapshot
MaxBuilds == 3
\* plugin cache accesses (get, set, delete) over the chain of builds
MaxAccesses == 2
\* calls of warnDeprecation on one Graph
MaxCalls == 3
\* entries, manual chunk seeds and import edges of the builds whose
\* includeStatements is followed turn by turn
MaxStepRefs == 3
\* largest access counter of an entry of the first cache
MaxCounter == 2
\* largest experimentalCacheExpiry
MaxExpiry == 2

ModuleIds == 1..MaxId
\* the one id the `external` option declares external
ExternalId == MaxId + 1
AllIds == ModuleIds \cup {ExternalId}
NoId == 0
\* The options the constructor copies (preserveModules, treeshake), the
\* inlineDynamicImports argument of build and Module.preserveSignature are
\* fixed before the build starts and nothing writes them afterwards; the
\* model holds each as NotRead up to the step that first reads it and picks
\* its value there, which yields the same behaviours with fewer states.
NotRead == "not read"
\* an option that was read: "on" when it is truthy
OnOff(option) == IF option THEN "on" ELSE "off"

VARIABLES
    phase,              \* Graph.phase
    pc,                 \* position of build()
    work,               \* ModuleLoader: the pending resolve/load work items
    moduleById,         \* Graph.moduleById, in insertion order
    sources,            \* Module.sources: static imports of each loaded module
    dynamicImports,     \* Module.dynamicImports of each loaded module
    preserveSignature,  \* Module.preserveSignature of the entry modules
    unresolvedEntries,  \* the normalized entries handed to addEntryModules
    manualChunks,       \* build()'s manualChunks argument (object form), alias order
    entryModules,       \* result of parseModules
    modules,            \* Graph.modules
    externalModules,    \* Graph.externalModules
    warnings,           \* the warnings handed to onwarn, in order
    treeshakingOptions, \* Graph.treeshakingOptions: "on" | "off"
    needsTreeshakingPass, \* Graph.needsTreeshakingPass
    treeshakingPasses,  \* history: passes of the inclusion loop that have run
    isExecuted,         \* modules with Module.isExecuted
    variableIncluded,   \* modules whose exported Variable is included
    declarationIncluded, \* modules whose export declaration ran its include()
    importIncluded,     \* <<m, d>>: the statement import(d) of m is included
    includedDynamicImporters, \* Module.includedDynamicImporters
    preserveModules,    \* Graph.preserveModules: "on" | "off"
    inlineDynamicImports, \* build()'s inlineDynamicImports argument: "on" | "off"
    chunks,             \* the list generateChunks answers
    returned,           \* what build() has returned to its caller
    pluginCache,        \* the object options.cache.plugins, which Graph.pluginCache
                        \* aliases: plugin name -> key -> <<counter, value>>
    hasPluginCache,     \* FALSE when Graph.pluginCache is undefined (cache: false)
    cacheExpiry,        \* Graph.cacheExpiry
    hasSnapshot,        \* getCache() was called on this Graph
    builds,             \* history: Graph objects constructed so far
    untouched,          \* history: entries of the first cache no plugin has accessed
    firstCounter,       \* history: the access counters of the first cache
    increments,         \* history: constructions that counted an access
    accesses,           \* history: plugin cache accesses so far
    loadCalls,          \* history: number of load(id) invocations per id
    created,            \* history: number of records created per id
    strictDeprecations, \* Graph.strictDeprecations
    deprecationCalls,   \* history: the calls of warnDeprecation, in order
    linkLog,            \* history: the calls link() has made, in order
    firstInclusion      \* history: the outcome of the first includeStatements

loaderVars == <<work, moduleById, sources, dynamicImports, loadCalls, created>>
argVars == <<unresolvedEntries, manualChunks>>
includeVars == <<treeshakingOptions, needsTreeshakingPass, treeshakingPasses,
                 isExecuted, variableIncluded, declarationIncluded, importIncluded,
                 includedDynamicImporters>>
chunkVars == <<preserveModules, inlineDynamicImports, chunks, returned>>
cacheVars == <<pluginCache, hasPluginCache, cacheExpiry, hasSnapshot,
               builds, untouched, firstCounter, increments, accesses>>
deprecationVars == <<strictDeprecations, deprecationCalls>>
auxVars == <<deprecationVars, linkLog, firstInclusion>>
vars == <<phase, pc, work, moduleById, sources, dynamicImports, preserveSignature,
          unresolvedEntries, manualChunks, entryModules,
          modules, externalModules, warnings, loadCalls, created,
          treeshakingOptions, needsTreeshakingPass, treeshakingPasses,
          isExecuted, variableIncluded, declarationIncluded, importIncluded,
          includedDynamicImporters, preserveModules, inlineDynamicImports,
          chunks, returned, pluginCache, hasPluginCache, cacheExpiry,
          hasSnapshot, builds, untouched, firstCounter, increments, accesses,
          strictDeprecations, deprecationCalls, linkLog, firstInclusion>>

\* ----------------------------------------------------------------- helpers
Range(s) == {s[i] : i \in 1..Len(s)}

RECURSIVE SetToSeq(_)
\* a set of ids as a sequence in ascending order (AST order of the sources)
SetToSeq(S) ==
    IF S = {} THEN <<>>
    ELSE LET m == CHOOSE x \in S : \A y \in S : x <= y
         IN <<m>> \o SetToSeq(S \ {m})

SeqsUpTo(S, n) == UNION {[1..k -> S] : k \in 0..n}

RECURSIVE Dedupe(_)
\* a sequence without the later occurrences of a repeated element
Dedupe(s) ==
    IF s = <<>> THEN <<>>
    ELSE LET r == Dedupe(SubSeq(s, 1, Len(s) - 1))
             x == s[Len(s)]
         IN IF x \in Range(r) THEN r ELSE Append(r, x)

\* ------------------------------------------------- normalizeEntryModules
\* The `input` forms: a string, an array of ids, an object name -> id (its
\* keys in insertion order, named by their position).
Inputs ==
    {[form |-> "string", ids |-> <<i>>] : i \in ModuleIds}
    \cup {[form |-> f, ids |-> s] : f \in {"array", "object"},
                                    s \in SeqsUpTo(ModuleIds, MaxEntries)}

normalizeEntryModules(input) ==
    IF input.form = "string"
    THEN <<[fileName |-> NoId, name |-> NoId, id |-> input.ids[1]]>>
    ELSE IF input.form = "array"
    THEN [i \in 1..Len(input.ids) |->
             [fileName |-> NoId, name |-> NoId, id |-> input.ids[i]]]
    ELSE [i \in 1..Len(input.ids) |->
             [fileName |-> NoId, name |-> i, id |-> input.ids[i]]]

\* ------------------------------------------------------------ moduleById
Has(id) == \E i \in 1..Len(moduleById) : moduleById[i].id = id
TypeOf(id) == LET i == CHOOSE i \in 1..Len(moduleById) : moduleById[i].id = id
              IN moduleById[i].type
IsModule(id) == Has(id) /\ TypeOf(id) = "Module"

\* Map.set: a new key is appended, an existing key keeps its place
MapSet(map, id, type) ==
    IF \E i \in 1..Len(map) : map[i].id = id
    THEN [i \in 1..Len(map) |->
             IF map[i].id = id THEN [id |-> id, type |-> type] ELSE map[i]]
    ELSE Append(map, [id |-> id, type |-> type])

EdgesUsed ==
    LET RECURSIVE Sum(_)
        Sum(S) == IF S = {} THEN 0
                  ELSE LET m == CHOOSE x \in S : TRUE
                       IN Cardinality(sources[m]) + Cardinality(dynamicImports[m])
                          + Sum(S \ {m})
    IN Sum(ModuleIds)

\* The ids are names: the inputs are taken up to renaming, the k-th module
\* id that is mentioned (by the input, the manual chunks or an import) being k.
Referenced ==
    (Range(unresolvedEntries) \cup Range(manualChunks)
     \cup UNION {sources[m] \cup dynamicImports[m] : m \in ModuleIds}) \cap ModuleIds

FreshInOrder(known, S) ==
    LET k == Cardinality(known)
    IN (S \ known) = (k + 1)..(k + Cardinality(S \ known))

CanonicalSeq(s) ==
    \A i \in 1..Len(s) :
        FreshInOrder({s[j] : j \in 1..(i - 1)}, {s[j] : j \in 1..i})

\* -------------------------------------------------------------------- Init
\* the fields of a Graph as the constructor leaves them (lines 59-74)
InitGraph ==
    /\ phase = "LOAD_AND_PARSE"
    /\ work = {}
    /\ moduleById = <<>>
    /\ sources = [m \in ModuleIds |-> {}]
    /\ dynamicImports = [m \in ModuleIds |-> {}]
    /\ unresolvedEntries = <<>>
    /\ manualChunks = <<>>
    /\ preserveSignature = [m \in ModuleIds |-> NotRead]
    /\ warnings = <<>>
    /\ treeshakingOptions = NotRead
    /\ needsTreeshakingPass = FALSE
    /\ treeshakingPasses = 0
    /\ isExecuted = {}
    /\ variableIncluded = {}
    /\ declarationIncluded = {}
    /\ importIncluded = {}
    /\ includedDynamicImporters = [m \in ModuleIds |-> {}]
    /\ preserveModules = NotRead
    /\ inlineDynamicImports = NotRead
    /\ chunks = <<>>
    /\ returned = <<>>
    /\ entryModules = <<>>
    /\ modules = <<>>
    /\ externalModules = <<>>
    /\ loadCalls = [m \in AllIds |-> 0]
    /\ created = [m \in AllIds |-> 0]
    /\ linkLog = <<>>
    /\ firstInclusion = <<>>

Plugins == {"a", "b"}
Keys == {"k", "l"}
NoCache == [name \in {} |-> [key \in {} |-> <<0, 0>>]]

\* a Graph constructed with `cache: false`
Init ==
    /\ InitGraph
    /\ pc = "constructed"
    /\ pluginCache = NoCache
    /\ hasPluginCache = FALSE
    /\ cacheExpiry = 0
    /\ hasSnapshot = FALSE
    /\ builds = 1
    /\ untouched = {}
    /\ firstCounter = NoCache
    /\ increments = 0
    /\ accesses = 0
    /\ strictDeprecations = FALSE
    /\ deprecationCalls = <<>>

\* ------------------------------------------------------------------ Loader
WorkItem(kind, n, imp, tgt) ==
    [kind |-> kind, n |-> n, imp |-> imp, tgt |-> tgt, st |-> "resolving"]

\* build() is called: parseModules hands the normalized entries to
\* addEntryModules and the manual chunk seeds to addManualChunks
BuildStart ==
    /\ pc = "constructed"
    /\ \E input \in Inputs, mc \in SeqsUpTo(ModuleIds, MaxManual) :
        LET un == normalizeEntryModules(input)
        IN /\ Len(un) + Len(mc) <= MaxRefs
           /\ CanonicalSeq([i \in 1..Len(un) |-> un[i].id] \o mc)
           /\ unresolvedEntries' = [i \in 1..Len(un) |-> un[i].id]
           /\ manualChunks' = mc
           /\ work' = {WorkItem("entry", i, NoId, un[i].id) : i \in 1..Len(un)}
                      \cup {WorkItem("manual", j, NoId, mc[j]) : j \in 1..Len(mc)}
    /\ pc' = "loading"
    /\ UNCHANGED <<phase, moduleById, sources, dynamicImports, preserveSignature,
                   entryModules, modules, externalModules, warnings, loadCalls,
                   created, includeVars, chunkVars, cacheVars, auxVars>>

\* a variant of existingModule that never finds the Module of an id
existingModuleNever(id) == FALSE

\* "locate or create a Module by id": moduleById.get(id) answers a Module
existingModule(id) == IsModule(id)

\* resolve(specifier, importer) completes for a work item
ResolveDone(w) ==
    /\ pc = "loading"
    /\ w \in work
    /\ w.st = "resolving"
    /\ IF w.tgt = ExternalId
       THEN /\ work' = work \ {w}
            /\ IF Has(w.tgt)
               THEN UNCHANGED <<moduleById, created>>
               ELSE /\ moduleById' = MapSet(moduleById, w.tgt, "ExternalModule")
                    /\ created' = [created EXCEPT ![w.tgt] = @ + 1]
            /\ UNCHANGED loadCalls
       ELSE IF existingModule(w.tgt)
       THEN /\ work' = work \ {w}
            /\ UNCHANGED <<moduleById, created, loadCalls>>
       ELSE /\ moduleById' = MapSet(moduleById, w.tgt, "Module")
            /\ created' = [created EXCEPT ![w.tgt] = @ + 1]
            /\ loadCalls' = [loadCalls EXCEPT ![w.tgt] = @ + 1]
            /\ work' = (work \ {w}) \cup {[w EXCEPT !.st = "loading"]}
    /\ UNCHANGED <<phase, pc, sources, dynamicImports, preserveSignature, argVars,
                   entryModules, modules, externalModules, warnings,
                   includeVars, chunkVars, cacheVars, auxVars>>

\* load(id) and parse complete: the imports found in the AST are enqueued
LoadDone(w) ==
    /\ pc = "loading"
    /\ w \in work
    /\ w.st = "loading"
    /\ \E S \in SUBSET AllIds, D \in SUBSET ModuleIds :
        /\ Len(unresolvedEntries) + Len(manualChunks) + EdgesUsed
               + Cardinality(S) + Cardinality(D) <= MaxRefs
        /\ FreshInOrder(Referenced, (S \cup D) \cap ModuleIds)
        /\ sources' = [sources EXCEPT ![w.tgt] = S]
        /\ dynamicImports' = [dynamicImports EXCEPT ![w.tgt] = D]
        /\ work' = (work \ {w})
                   \cup {WorkItem("static", 0, w.tgt, s) : s \in S}
                   \cup {WorkItem("dynamic", 0, w.tgt, d) : d \in D}
    /\ UNCHANGED <<phase, pc, moduleById, preserveSignature, argVars, entryModules,
                   modules, externalModules, warnings, loadCalls, created,
                   includeVars, chunkVars, cacheVars, auxVars>>

\* ------------------------------------------------------------ parseModules
IdsOfType(map, type) ==
    LET sel == SelectSeq(map, LAMBDA r : r.type = type)
    IN [i \in 1..Len(sel) |-> sel[i].id]

\* Module.preserveSignature: false | 'strict' ('allow-extension' is left out)
Signatures == {"false", "strict"}

\* a variant of loaderDrained that waits for the entries to resolve only
loaderDrainedEntriesOnly == \A w \in work : w.kind # "entry"

\* parseModules lines 389-395: await Promise.all([addEntryModules(...),
\* addManualChunks(...)]), which resolve when the work queue has drained
loaderDrained == work = {}

\* a variant of noEntryModules that lets an empty entry list through
noEntryModulesIgnored(em) == FALSE

\* parseModules line 399
noEntryModules(em) == Len(em) = 0

\* parseModules after `await Promise.all([addEntryModules, addManualChunks])`:
\* the work queue has drained.  addEntryModules answers the entry modules in
\* declaration order, one per module, each with its preserveSignature.
ParseModulesDone ==
    /\ pc = "loading"
    /\ loaderDrained
    /\ LET em == Dedupe(unresolvedEntries)
       IN IF noEntryModules(em)
          THEN /\ pc' = "failed"
               /\ UNCHANGED <<entryModules, modules, externalModules,
                              preserveSignature>>
          ELSE /\ pc' = "parsed"
               /\ entryModules' = em
               /\ modules' = modules \o IdsOfType(moduleById, "Module")
               /\ externalModules' =
                      externalModules \o IdsOfType(moduleById, "ExternalModule")
               /\ \E sig \in [Range(em) -> Signatures] :
                      preserveSignature' =
                          [m \in ModuleIds |->
                              IF m \in Range(em) THEN sig[m] ELSE NotRead]
    /\ UNCHANGED <<phase, loaderVars, argVars, warnings, includeVars, chunkVars, cacheVars, auxVars>>

\* ------------------------------------------------- analyseModuleExecution
NoParent == -1

RECURSIVE CyclePathFrom(_, _, _)
\* the ids from curId up the parents to id, last first
CyclePathFrom(id, curId, parents) ==
    IF curId = id THEN <<>>
    ELSE CyclePathFrom(id, parents[curId], parents) \o <<curId>>

\* the path id -> ... -> parentId -> id of a cycle closed by parentId importing id
getCyclePath(id, parentId, parents) ==
    <<id>> \o CyclePathFrom(id, parentId, parents) \o <<id>>

AppendNew(seq, S) ==
    seq \o SetToSeq({d \in S : d \notin Range(seq)})

RECURSIVE analyseModule(_, _)
RECURSIVE analyseDependencies(_, _, _, _)

\* depth-first over the static imports, in the order of the sources
analyseDependencies(m, deps, i, st) ==
    IF i > Len(deps) THEN st
    ELSE LET d == deps[i]
         IN IF st.parents[d] # NoParent
            THEN analyseDependencies(m, deps, i + 1,
                     IF d \notin st.analysed
                     THEN [st EXCEPT !.cyclePaths =
                                 Append(@, getCyclePath(d, m, st.parents))]
                     ELSE st)
            ELSE analyseDependencies(m, deps, i + 1,
                     analyseModule(d, [st EXCEPT !.parents[d] = m]))

analyseModule(m, st) ==
    IF m \in st.analysed THEN st
    ELSE IF m = ExternalId THEN [st EXCEPT !.analysed = @ \cup {m}]
    ELSE LET s1 == analyseDependencies(m, SetToSeq(sources[m]), 1, st)
         IN [s1 EXCEPT !.dynamicImports = AppendNew(@, dynamicImports[m]),
                       !.analysed = @ \cup {m},
                       !.orderedModules = Append(@, m)]

RECURSIVE analyseRoots(_, _, _)
analyseRoots(roots, i, st) ==
    IF i > Len(roots) THEN st
    ELSE IF st.parents[roots[i]] \in {NoParent, NoId}
    THEN analyseRoots(roots, i + 1,
             analyseModule(roots[i], [st EXCEPT !.parents[roots[i]] = NoId]))
    ELSE analyseRoots(roots, i + 1, st)

RECURSIVE analyseDynamic(_, _)
\* the dynamic imports found on the way are roots after the entries
analyseDynamic(i, st) ==
    IF i > Len(st.dynamicImports) THEN st
    ELSE analyseDynamic(i + 1, analyseRoots(<<st.dynamicImports[i]>>, 1, st))

analyseModuleExecution(entries) ==
    LET st0 == [orderedModules |-> <<>>, cyclePaths |-> <<>>, analysed |-> {},
                parents |-> [m \in AllIds |-> NoParent], dynamicImports |-> <<>>]
        st == analyseDynamic(1, analyseRoots(entries, 1, st0))
    IN [orderedModules |-> st.orderedModules, cyclePaths |-> st.cyclePaths]

\* -------------------------------------------------------------------- build
\* a variant of SetAnalyse that goes on to link without the assignment
SetAnalyseKeepsPhase ==
    /\ pc = "parsed"
    /\ pc' = "analyse"
    /\ UNCHANGED <<phase, loaderVars, argVars, preserveSignature, entryModules,
                   modules, externalModules, warnings, includeVars, chunkVars,
                   cacheVars, auxVars>>

\* build() line 207
SetAnalyse ==
    /\ pc = "parsed"
    /\ phase' = "ANALYSE"
    /\ pc' = "analyse"
    /\ UNCHANGED <<loaderVars, argVars, preserveSignature, entryModules, modules,
                   externalModules, warnings, includeVars, chunkVars, cacheVars, auxVars>>

CircularDependency(cyclePath) ==
    [code |-> "CIRCULAR_DEPENDENCY", cycle |-> cyclePath, importer |-> cyclePath[1]]

Call(op, arg) == [op |-> op, arg |-> arg]

\* the calls of link() in the order of its statements: linkDependencies for
\* each module (lines 366-368), warn for each cycle path (370-377),
\* bindReferences for each module of the stored order (379-381) and
\* warnForMissingExports (382)
linkCalls(before, cyclePaths, after) ==
    [i \in 1..Len(before) |-> Call("linkDependencies", <<before[i]>>)]
    \o [i \in 1..Len(cyclePaths) |-> Call("warn", cyclePaths[i])]
    \o [i \in 1..Len(after) |-> Call("bindReferences", <<after[i]>>)]
    \o <<Call("warnForMissingExports", <<>>)>>

\* a variant of link that warns but keeps `modules` in the order of moduleById
linkKeepsLoadOrder ==
    LET res == analyseModuleExecution(entryModules)
    IN /\ warnings' = warnings \o
              [i \in 1..Len(res.cyclePaths) |-> CircularDependency(res.cyclePaths[i])]
       /\ modules' = modules
       /\ linkLog' = linkCalls(modules, res.cyclePaths, modules)

\* a variant of link that gives up at the first cycle it has warned about
linkStopsAtWarning ==
    LET res == analyseModuleExecution(entryModules)
    IN IF res.cyclePaths = <<>>
       THEN /\ warnings' = warnings
            /\ modules' = res.orderedModules
            /\ linkLog' = linkCalls(modules, <<>>, res.orderedModules)
       ELSE /\ warnings' = Append(warnings, CircularDependency(res.cyclePaths[1]))
            /\ modules' = modules
            /\ linkLog' = [i \in 1..Len(modules) |->
                              Call("linkDependencies", <<modules[i]>>)]
                          \o <<Call("warn", res.cyclePaths[1])>>

\* link(entryModules)
link ==
    LET res == analyseModuleExecution(entryModules)
    IN /\ warnings' = warnings \o
              [i \in 1..Len(res.cyclePaths) |-> CircularDependency(res.cyclePaths[i])]
       /\ modules' = res.orderedModules
       /\ linkLog' = linkCalls(modules, res.cyclePaths, res.orderedModules)

Link ==
    /\ pc = "analyse"
    /\ link
    /\ pc' = "linked"
    /\ UNCHANGED <<phase, loaderVars, argVars, preserveSignature, entryModules,
                   externalModules, includeVars, chunkVars, cacheVars,
                   deprecationVars, firstInclusion>>

\* -------------------------------------------------------- includeStatements
\* Every module exports one Variable, declared by `export const v = f(...)`
\* over the exported Variables of its static imports, and holds one
\* statement `import(d)` for each of its dynamic imports.  moduleSideEffects
\* is true (the default) for every module.
RECURSIVE StaticClosure(_, _)
StaticClosure(todo, seen) ==
    IF todo = {} THEN seen
    ELSE LET m == CHOOSE x \in todo : TRUE
             new == (sources[m] \cap ModuleIds) \ (seen \cup todo)
         IN StaticClosure((todo \ {m}) \cup new, seen \cup {m})

markModuleAndImpureDependenciesAsExecuted(m, st) ==
    [st EXCEPT !.isExecuted = @ \cup StaticClosure({m}, {})]

\* Module.includeVariable
includeVariable(v, st) ==
    IF v \in st.variableIncluded THEN st
    ELSE [st EXCEPT !.variableIncluded = @ \cup {v}, !.needs = TRUE]

\* Module.includeAllExports
includeAllExports(m, st) ==
    LET s1 == IF m \in st.isExecuted THEN st
              ELSE markModuleAndImpureDependenciesAsExecuted(
                       m, [st EXCEPT !.needs = TRUE])
    IN includeVariable(m, s1)

RECURSIVE includeVariables(_, _)
includeVariables(vs, st) ==
    IF vs = <<>> THEN st
    ELSE includeVariables(Tail(vs), includeVariable(Head(vs), st))

RECURSIVE includeDynamicImports(_, _, _)
\* ImportExpression.include -> Module.includeDynamicImport
includeDynamicImports(m, ds, st) ==
    IF ds = <<>> THEN st
    ELSE LET d == Head(ds)
         IN includeDynamicImports(m, Tail(ds),
                IF <<m, d>> \in st.importIncluded THEN st
                ELSE includeAllExports(d,
                       [st EXCEPT !.importIncluded = @ \cup {<<m, d>>},
                                  !.includedDynamicImporters[d] = @ \cup {m},
                                  !.needs = TRUE]))

\* a statement is marked included; one that newly is sets needsTreeshakingPass
includeDeclaration(m, st) ==
    IF m \in st.declarationIncluded THEN st
    ELSE [st EXCEPT !.declarationIncluded = @ \cup {m}, !.needs = TRUE]

\* Module.include: the statements that have effects or are already marked
\* included run their include(), which requests the Variables they read
moduleInclude(m, st) ==
    LET s1 == IF m \in st.variableIncluded
              THEN includeVariables(SetToSeq(sources[m] \cap ModuleIds),
                       includeDeclaration(m, st))
              ELSE st
    IN includeDynamicImports(m, SetToSeq(dynamicImports[m]), s1)

\* Module.includeAllInBundle
includeAllInBundle(m, st) ==
    moduleInclude(m, [st EXCEPT !.variableIncluded = @ \cup {m}])

RECURSIVE treeshakingPass(_, _)
\* lines 352-354
treeshakingPass(ms, st) ==
    IF ms = <<>> THEN st
    ELSE treeshakingPass(Tail(ms),
             IF Head(ms) \in st.isExecuted THEN moduleInclude(Head(ms), st) ELSE st)

\* a variant of whileNeeded that leaves the loop after every pass
whileNeededNever(needs) == FALSE

\* line 356: while (this.needsTreeshakingPass)
whileNeeded(needs) == needs

\* lines 350-355: one turn of the loop
loopBody(ms, st) ==
    treeshakingPass(ms, [st EXCEPT !.needs = FALSE, !.passes = @ + 1])

\* a variant of treeshakingLoop that is over after its first pass
treeshakingLoopOnce(ms, st) == loopBody(ms, st)

RECURSIVE treeshakingLoopClosingPass(_, _)
\* a variant of treeshakingLoop that runs one more pass after the flag stayed
\* unset
treeshakingLoopClosingPass(ms, st) ==
    LET s1 == loopBody(ms, st)
    IN IF whileNeeded(s1.needs) THEN treeshakingLoopClosingPass(ms, s1)
       ELSE loopBody(ms, s1)

RECURSIVE treeshakingLoop(_, _)
\* lines 349-356: do { ... } while (this.needsTreeshakingPass)
treeshakingLoop(ms, st) ==
    LET s1 == loopBody(ms, st)
    IN IF whileNeeded(s1.needs) THEN treeshakingLoop(ms, s1) ELSE s1

RECURSIVE includeAllModules(_, _)
\* line 359
includeAllModules(ms, st) ==
    IF ms = <<>> THEN st
    ELSE includeAllModules(Tail(ms), includeAllInBundle(Head(ms), st))

RECURSIVE seedEntriesAllExports(_, _)
\* a variant of seedEntries that does not look at preserveSignature
seedEntriesAllExports(es, st) ==
    IF es = <<>> THEN st
    ELSE seedEntriesAllExports(Tail(es), includeAllExports(Head(es), st))

RECURSIVE seedEntries(_, _)
\* lines 340-346
seedEntries(es, st) ==
    IF es = <<>> THEN st
    ELSE seedEntries(Tail(es),
             IF preserveSignature[Head(es)] # "false"
             THEN includeAllExports(Head(es), st)
             ELSE markModuleAndImpureDependenciesAsExecuted(Head(es), st))

\* the inclusion state of the graph and of its modules
currentInclusion ==
    [isExecuted |-> isExecuted, variableIncluded |-> variableIncluded,
     declarationIncluded |-> declarationIncluded,
     importIncluded |-> importIncluded,
     includedDynamicImporters |-> includedDynamicImporters,
     needs |-> needsTreeshakingPass, passes |-> treeshakingPasses]

storeInclusion(st) ==
    /\ isExecuted' = st.isExecuted
    /\ variableIncluded' = st.variableIncluded
    /\ declarationIncluded' = st.declarationIncluded
    /\ importIncluded' = st.importIncluded
    /\ includedDynamicImporters' = st.includedDynamicImporters
    /\ needsTreeshakingPass' = st.needs
    /\ treeshakingPasses' = st.passes

includeStatements(treeshake) ==
    LET s1 == seedEntries(entryModules, currentInclusion)
    IN IF treeshake THEN treeshakingLoop(modules, s1)
       ELSE includeAllModules(modules, s1)

\* Module.isIncluded
isIncluded(m) ==
    \/ m \in variableIncluded
    \/ m \in declarationIncluded
    \/ \E d \in ModuleIds : <<m, d>> \in importIncluded

IncludeStatements ==
    /\ pc = "linked"
    /\ \E treeshake \in BOOLEAN :
        /\ treeshakingOptions' = OnOff(treeshake)
        /\ storeInclusion(includeStatements(treeshake))
    /\ pc' = "included"
    /\ UNCHANGED <<phase, loaderVars, argVars, preserveSignature, entryModules,
                   modules, externalModules, warnings, chunkVars, cacheVars, auxVars>>

\* includeStatements step by step: lines 340-346
SeedEntries ==
    /\ pc = "linked"
    /\ storeInclusion(seedEntries(entryModules, currentInclusion))
    /\ pc' = "seeded"
    /\ UNCHANGED <<phase, loaderVars, argVars, preserveSignature, entryModules,
                   modules, externalModules, warnings, treeshakingOptions,
                   chunkVars, cacheVars, auxVars>>

\* lines 347-356 with this.treeshakingOptions set: one turn of the loop
TreeshakingPass ==
    /\ pc \in {"seeded", "pass"}
    /\ treeshakingOptions' = "on"
    /\ LET st == loopBody(modules, currentInclusion)
       IN /\ storeInclusion(st)
          /\ pc' = IF whileNeeded(st.needs) THEN "pass" ELSE "included"
    /\ UNCHANGED <<phase, loaderVars, argVars, preserveSignature, entryModules,
                   modules, externalModules, warnings, chunkVars, cacheVars, auxVars>>

\* lines 357-360 with this.treeshakingOptions unset
IncludeAllInBundle ==
    /\ pc = "seeded"
    /\ treeshakingOptions' = "off"
    /\ storeInclusion(includeAllModules(modules, currentInclusion))
    /\ pc' = "included"
    /\ UNCHANGED <<phase, loaderVars, argVars, preserveSignature, entryModules,
                   modules, externalModules, warnings, chunkVars, cacheVars, auxVars>>

\* includeStatements run once more on its own outcome
IncludeStatementsAgain ==
    /\ pc = "included"
    /\ firstInclusion = <<>>
    /\ firstInclusion' = <<currentInclusion>>
    /\ storeInclusion(includeStatements(treeshakingOptions = "on"))
    /\ pc' = "included again"
    /\ UNCHANGED <<phase, loaderVars, argVars, preserveSignature, entryModules,
                   modules, externalModules, warnings, treeshakingOptions,
                   chunkVars, cacheVars, deprecationVars, linkLog>>

\* ------------------------------------------------------------ generateChunks
isEntryPoint(m) == m \in Range(entryModules)

PositionIn(seq, x) ==
    IF x \in Range(seq) THEN CHOOSE i \in 1..Len(seq) : seq[i] = x
    ELSE Len(seq) + x

RECURSIVE SortBy(_, _)
SortBy(S, order) ==
    IF S = {} THEN <<>>
    ELSE LET m == CHOOSE x \in S :
                      \A y \in S : PositionIn(order, x) <= PositionIn(order, y)
         IN <<m>> \o SortBy(S \ {m}, order)

\* sortByExecutionOrder: by execIndex, the position analyseModuleExecution
\* gave; a module it never reached comes last
sortByExecutionOrder(chunkModules) == SortBy(Range(chunkModules), modules)

RECURSIVE ReachFrom(_, _, _)
\* forward over the static imports from `todo`, never entering `stop`
ReachFrom(todo, seen, stop) ==
    IF todo = {} THEN seen
    ELSE LET m == CHOOSE x \in todo : TRUE
             new == (sources[m] \cap ModuleIds) \ (seen \cup todo \cup stop)
         IN ReachFrom((todo \ {m}) \cup new, seen \cup {m}, stop)

RECURSIVE manualAssignments(_, _, _)
\* the modules of each manual chunk, in alias order: what its seed reaches
\* before another entry; a module two aliases claim stays with the first
manualAssignments(j, taken, acc) ==
    IF j > Len(manualChunks) THEN acc
    ELSE LET seed == manualChunks[j]
             ms == IF seed \in taken THEN {}
                   ELSE ReachFrom({seed}, {},
                            taken \cup (Range(entryModules) \ {seed}))
         IN manualAssignments(j + 1, taken \cup ms, Append(acc, SetToSeq(ms)))

dynamicEntryModules ==
    SelectSeq(modules, LAMBDA m : includedDynamicImporters[m] # {} /\ ~isEntryPoint(m))

\* getChunkAssignments: the manual chunks, then one group per colour (the
\* set of entry points that reach a module)
getChunkAssignments(entries, manual) ==
    LET inManual == UNION {Range(manual[j]) : j \in 1..Len(manual)}
        roots == Range(entries) \cup Range(dynamicEntryModules)
        reach == [r \in roots |->
                     IF r \in inManual THEN {} ELSE ReachFrom({r}, {}, inManual)]
        coloured == UNION {reach[r] : r \in roots}
        colour == [m \in coloured |-> {r \in roots : m \in reach[r]}]
        ordered == SortBy(coloured, modules)
        firsts == SelectSeq(ordered, LAMBDA m :
                     \A k \in 1..(PositionIn(ordered, m) - 1) :
                         colour[ordered[k]] # colour[m])
    IN manual \o
       [g \in 1..Len(firsts) |->
           SelectSeq(ordered, LAMBDA m : colour[m] = colour[firsts[g]])]

\* new Chunk(graph, orderedModules)
NewChunk(ms, n) ==
    [modules |-> ms, entryModules |-> SelectSeq(ms, isEntryPoint),
     facadeModule |-> NoId, isFacade |-> FALSE, host |-> 0, created |-> n]

\* Chunk.generateFacade
NewFacade(m, h, n) ==
    [modules |-> <<>>, entryModules |-> <<>>, facadeModule |-> m,
     isFacade |-> TRUE, host |-> h, created |-> n]

\* the Variables a chunk has to expose: the exports of its signature
\* preserving entries and of its modules imported dynamically from elsewhere
exposedVariables(c) ==
    {e \in Range(c.entryModules) : preserveSignature[e] # "false"}
    \cup {d \in Range(c.modules) :
             \E imp \in includedDynamicImporters[d] : imp \notin Range(c.modules)}

RECURSIVE facadesOf(_, _, _, _)
\* Chunk.generateFacades: the chunk itself stands for the first entry module
\* whose signature it can express, every other entry gets a facade chunk
facadesOf(c, es, pm, st) ==
    IF es = <<>> THEN st
    ELSE LET e == Head(es)
         IN IF st.facadeModule = NoId
               /\ (pm \/ preserveSignature[e] # "strict"
                      \/ exposedVariables(c) \subseteq {e})
            THEN facadesOf(c, Tail(es), pm, [st EXCEPT !.facadeModule = e])
            ELSE facadesOf(c, Tail(es), pm, [st EXCEPT !.facades = Append(@, e)])

generateFacades(c, pm) ==
    facadesOf(c, c.entryModules, pm, [facadeModule |-> NoId, facades |-> <<>>])

RECURSIVE allFacades(_, _, _, _)
\* lines 332-335
allFacades(cs, h, pm, acc) ==
    IF h > Len(cs) THEN acc
    ELSE LET r == generateFacades(cs[h], pm)
         IN allFacades(cs, h + 1, pm,
                [chunks |-> Append(acc.chunks,
                                [cs[h] EXCEPT !.facadeModule = r.facadeModule]),
                 facades |-> acc.facades \o
                     [k \in 1..Len(r.facades) |->
                         NewFacade(r.facades[k], h,
                                   Len(cs) + Len(acc.facades) + k)]])

\* a variant of preserveModulesChunks that forgets module.isIncluded()
preserveModulesChunksNotIncluded ==
    LET kept == SelectSeq(modules, LAMBDA m :
                    isEntryPoint(m) \/ includedDynamicImporters[m] # {})
    IN [k \in 1..Len(kept) |->
           [NewChunk(<<kept[k]>>, k) EXCEPT !.entryModules = <<kept[k]>>]]

\* a variant of preserveModulesChunks that forgets module.isEntryPoint
preserveModulesChunksNotEntry ==
    LET kept == SelectSeq(modules, LAMBDA m :
                    isIncluded(m) \/ includedDynamicImporters[m] # {})
    IN [k \in 1..Len(kept) |->
           [NewChunk(<<kept[k]>>, k) EXCEPT !.entryModules = <<kept[k]>>]]

\* a variant of preserveModulesChunks that leaves chunk.entryModules as the
\* Chunk constructor set it
preserveModulesChunksNoEntryList ==
    LET kept == SelectSeq(modules, LAMBDA m :
                    isIncluded(m) \/ isEntryPoint(m)
                    \/ includedDynamicImporters[m] # {})
    IN [k \in 1..Len(kept) |-> NewChunk(<<kept[k]>>, k)]

\* lines 308-319
preserveModulesChunks ==
    LET kept == SelectSeq(modules, LAMBDA m :
                    isIncluded(m) \/ isEntryPoint(m)
                    \/ includedDynamicImporters[m] # {})
    IN [k \in 1..Len(kept) |->
           [NewChunk(<<kept[k]>>, k) EXCEPT !.entryModules = <<kept[k]>>]]

\* a variant of assignedChunks that asks getChunkAssignments whenever there
\* are manual chunks
assignedChunksManualFirst(inline) ==
    LET groups == IF inline /\ manualChunks = <<>> THEN <<modules>>
                  ELSE getChunkAssignments(entryModules,
                           manualAssignments(1, {}, <<>>))
    IN [k \in 1..Len(groups) |-> NewChunk(sortByExecutionOrder(groups[k]), k)]

\* lines 320-327
assignedChunks(inline) ==
    LET groups == IF inline THEN <<modules>>
                  ELSE getChunkAssignments(entryModules,
                           manualAssignments(1, {}, <<>>))
    IN [k \in 1..Len(groups) |-> NewChunk(sortByExecutionOrder(groups[k]), k)]

\* a variant of chunkList that spreads the facades first
chunkListFacadesFirst(cs, facades) == facades \o cs

\* line 336
chunkList(cs, facades) == cs \o facades

generateChunks(pm, inline) ==
    LET cs == IF pm THEN preserveModulesChunks ELSE assignedChunks(inline)
        r == allFacades(cs, 1, pm, [chunks |-> <<>>, facades |-> <<>>])
    IN chunkList(r.chunks, r.facades)

GenerateChunks ==
    /\ pc = "included"
    /\ \E pm \in BOOLEAN :
        /\ preserveModules' = OnOff(pm)
        /\ IF pm
           THEN /\ chunks' = generateChunks(TRUE, FALSE)
                /\ UNCHANGED inlineDynamicImports
           ELSE \E inline \in BOOLEAN :
                /\ inlineDynamicImports' = OnOff(inline)
                /\ chunks' = generateChunks(FALSE, inline)
    /\ pc' = "chunked"
    /\ UNCHANGED <<phase, loaderVars, argVars, preserveSignature, entryModules,
                   modules, externalModules, warnings, includeVars, returned,
                   cacheVars, auxVars>>

\* build() lines 224-227
BuildReturn ==
    /\ pc = "chunked"
    /\ phase' = "GENERATE"
    /\ returned' = chunks
    /\ pc' = "returned"
    /\ UNCHANGED <<loaderVars, argVars, preserveSignature, entryModules, modules,
                   externalModules, warnings, includeVars, preserveModules,
                   inlineDynamicImports, chunks, cacheVars, auxVars>>

\* ------------------------------------------------------------ plugin cache
\* the caches a first build may be handed: every entry is <<counter, value>>
PluginCaches ==
    UNION {[names -> UNION {[keys -> (0..MaxCounter) \X {1}] : keys \in SUBSET Keys}]
           : names \in SUBSET Plugins}

Entries(cache) == {<<name, key>> \in Plugins \X Keys :
                      name \in DOMAIN cache /\ key \in DOMAIN cache[name]}
Counter(cache, e) == cache[e[1]][e[2]][1]
Value(cache, e) == cache[e[1]][e[2]][2]

\* the state before the first Graph is constructed: the cache of an earlier run
InitCache ==
    /\ InitGraph
    /\ pc = "none"
    /\ pluginCache \in PluginCaches
    /\ hasPluginCache = FALSE
    /\ cacheExpiry = 0
    /\ hasSnapshot = FALSE
    /\ builds = 0
    /\ untouched = Entries(pluginCache)
    /\ firstCounter = pluginCache
    /\ increments = 0
    /\ accesses = 0
    /\ strictDeprecations = FALSE
    /\ deprecationCalls = <<>>

\* a variant of incrementAccessCounters that counts the keys of one plugin only
incrementFirstPluginOnly(cache) ==
    [name \in DOMAIN cache |->
        [key \in DOMAIN cache[name] |->
            IF name = (CHOOSE first \in DOMAIN cache : TRUE)
            THEN <<cache[name][key][1] + 1, cache[name][key][2]>>
            ELSE cache[name][key]]]

\* constructor lines 91-94: increment access counter
incrementAccessCounters(cache) ==
    [name \in DOMAIN cache |->
        [key \in DOMAIN cache[name] |->
            <<cache[name][key][1] + 1, cache[name][key][2]>>]]

\* new Graph(options): `useCache` is options.cache !== false, the cache handed
\* over is the last snapshot (lines 83-100)
Construct ==
    /\ pc = "none" \/ hasSnapshot
    /\ builds < MaxBuilds
    /\ \E useCache \in BOOLEAN, expiry \in 0..MaxExpiry :
        /\ hasPluginCache' = useCache
        /\ cacheExpiry' = expiry
        /\ IF useCache
           THEN /\ pluginCache' = incrementAccessCounters(pluginCache)
                /\ increments' = increments + 1
           ELSE /\ pluginCache' = NoCache
                /\ UNCHANGED increments
    /\ hasSnapshot' = FALSE
    /\ builds' = builds + 1
    /\ phase' = "LOAD_AND_PARSE"
    /\ pc' = "constructed"
    /\ UNCHANGED <<loaderVars, argVars, preserveSignature, entryModules, modules,
                   externalModules, warnings, includeVars, chunkVars, untouched,
                   firstCounter, accesses, auxVars>>

\* a plugin hook reads an entry of its cache (this.cache.get / has): the
\* access counter of the entry starts again at 0
PluginCacheGet(name, key) ==
    /\ pc = "constructed"
    /\ hasPluginCache /\ ~hasSnapshot
    /\ accesses < MaxAccesses
    /\ <<name, key>> \in Entries(pluginCache)
    /\ pluginCache' = [pluginCache EXCEPT ![name][key][1] = 0]
    /\ untouched' = untouched \ {<<name, key>>}
    /\ accesses' = accesses + 1
    /\ UNCHANGED <<phase, pc, loaderVars, argVars, preserveSignature, entryModules,
                   modules, externalModules, warnings, includeVars, chunkVars,
                   hasPluginCache, cacheExpiry, hasSnapshot, builds, firstCounter,
                   increments, auxVars>>

\* a plugin hook stores an entry (this.cache.set)
PluginCacheSet(name, key) ==
    /\ pc = "constructed"
    /\ hasPluginCache /\ ~hasSnapshot
    /\ accesses < MaxAccesses
    /\ LET old == IF name \in DOMAIN pluginCache THEN pluginCache[name]
                  ELSE [k \in {} |-> <<0, 0>>]
           new == [k \in DOMAIN old \cup {key} |->
                      IF k = key THEN <<0, 2>> ELSE old[k]]
       IN pluginCache' = [n \in DOMAIN pluginCache \cup {name} |->
                             IF n = name THEN new ELSE pluginCache[n]]
    /\ untouched' = untouched \ {<<name, key>>}
    /\ accesses' = accesses + 1
    /\ UNCHANGED <<phase, pc, loaderVars, argVars, preserveSignature, entryModules,
                   modules, externalModules, warnings, includeVars, chunkVars,
                   hasPluginCache, cacheExpiry, hasSnapshot, builds, firstCounter,
                   increments, auxVars>>

\* build() as the plugin cache sees it: the build runs to its end and
\* touches no field of the cache
BuildRun ==
    /\ pc = "constructed"
    /\ phase' = "GENERATE"
    /\ pc' = "returned"
    /\ UNCHANGED <<loaderVars, argVars, preserveSignature, entryModules, modules,
                   externalModules, warnings, includeVars, chunkVars, cacheVars, auxVars>>

\* a variant of evictExpired that keeps an entry whose counter equals the expiry
evictExpiredStrict(cache, expiry) ==
    [key \in {k \in DOMAIN cache : ~(cache[k][1] > expiry)} |-> cache[key]]

\* getCache lines 235-238: the entries of one plugin that stay
evictExpired(cache, expiry) ==
    [key \in {k \in DOMAIN cache : ~(cache[k][1] >= expiry)} |-> cache[key]]

\* a variant of handleEviction whose allDeleted is never set to false
handleEvictionAllDeleted(cache, expiry) ==
    [name \in {n \in DOMAIN cache :
                  DOMAIN evictExpired(cache[n], expiry) = DOMAIN cache[n]
                  /\ DOMAIN cache[n] # {}} |->
        evictExpired(cache[name], expiry)]

\* getCache lines 232-240
handleEviction(cache, expiry) ==
    [name \in {n \in DOMAIN cache : DOMAIN evictExpired(cache[n], expiry) # {}} |->
        evictExpired(cache[name], expiry)]

getCache ==
    IF hasPluginCache THEN handleEviction(pluginCache, cacheExpiry) ELSE pluginCache

GetCache ==
    /\ pc \in {"constructed", "returned"}
    /\ builds >= 1
    /\ pluginCache' = getCache
    /\ hasSnapshot' = TRUE
    /\ UNCHANGED <<phase, pc, loaderVars, argVars, preserveSignature, entryModules,
                   modules, externalModules, warnings, includeVars, chunkVars,
                   hasPluginCache, cacheExpiry, builds, untouched, firstCounter,
                   increments, accesses, auxVars>>

NextCache ==
    \/ Construct
    \/ \E name \in Plugins, key \in Keys : PluginCacheGet(name, key)
    \/ \E name \in Plugins, key \in Keys : PluginCacheSet(name, key)
    \/ BuildRun
    \/ GetCache

SpecCache == InitCache /\ [][NextCache]_vars

\* ------------------------------------------------------------ deprecations
PureExternalModules == "treeshake.pureExternalModules is deprecated"
Deprecations == {PureExternalModules, "hook is deprecated", "option is deprecated"}

\* errDeprecation(deprecation)
errDeprecation(deprecation) ==
    [code |-> "DEPRECATED_FEATURE", message |-> deprecation]

\* a variant of warnDeprecation that does not look at activeDeprecation
warnDeprecationAlways(deprecation, activeDeprecation, strict) ==
    IF strict
    THEN [error |-> TRUE, warned |-> <<>>]
    ELSE [error |-> FALSE, warned |-> <<errDeprecation(deprecation)>>]

\* warnDeprecation lines 292-300: what the call raises and what it hands to
\* this.warn
warnDeprecation(deprecation, activeDeprecation, strict) ==
    IF activeDeprecation \/ strict
    THEN IF strict
         THEN [error |-> TRUE, warned |-> <<>>]
         ELSE [error |-> FALSE, warned |-> <<errDeprecation(deprecation)>>]
    ELSE [error |-> FALSE, warned |-> <<>>]

DeprecationCall(deprecation, activeDeprecation) ==
    [deprecation |-> deprecation, activeDeprecation |-> activeDeprecation]

\* before new Graph(options)
InitDeprecation ==
    /\ InitGraph
    /\ pc = "none"
    /\ pluginCache = NoCache
    /\ hasPluginCache = FALSE
    /\ cacheExpiry = 0
    /\ hasSnapshot = FALSE
    /\ builds = 0
    /\ untouched = {}
    /\ firstCounter = NoCache
    /\ increments = 0
    /\ accesses = 0
    /\ strictDeprecations = FALSE
    /\ deprecationCalls = <<>>

\* new Graph(options) with cache: false: lines 99 and 102-125.
\* `pure` is typeof treeshakingOptions.pureExternalModules !== 'undefined'
ConstructWithOptions ==
    /\ pc = "none"
    /\ \E strict \in BOOLEAN, pure \in BOOLEAN :
        /\ strictDeprecations' = strict
        /\ IF pure
           THEN LET r == warnDeprecation(PureExternalModules, TRUE, strict)
                IN /\ deprecationCalls' =
                          Append(deprecationCalls,
                                 DeprecationCall(PureExternalModules, TRUE))
                   /\ warnings' = warnings \o r.warned
                   /\ pc' = IF r.error THEN "failed" ELSE "constructed"
           ELSE /\ pc' = "constructed"
                /\ UNCHANGED <<deprecationCalls, warnings>>
    /\ builds' = builds + 1
    /\ UNCHANGED <<phase, loaderVars, argVars, preserveSignature, entryModules,
                   modules, externalModules, includeVars, chunkVars, pluginCache,
                   hasPluginCache, cacheExpiry, hasSnapshot, untouched,
                   firstCounter, increments, accesses, linkLog, firstInclusion>>

\* graph.warnDeprecation(deprecation, activeDeprecation), called by a plugin
\* context or an option handler
WarnDeprecation(deprecation, activeDeprecation) ==
    /\ pc = "constructed"
    /\ Len(deprecationCalls) < MaxCalls
    /\ LET r == warnDeprecation(deprecation, activeDeprecation, strictDeprecations)
       IN /\ warnings' = warnings \o r.warned
          /\ pc' = IF r.error THEN "failed" ELSE pc
    /\ deprecationCalls' =
           Append(deprecationCalls, DeprecationCall(deprecation, activeDeprecation))
    /\ UNCHANGED <<phase, loaderVars, argVars, preserveSignature, entryModules,
                   modules, externalModules, includeVars, chunkVars, cacheVars,
                   strictDeprecations, linkLog, firstInclusion>>

NextDeprecation ==
    \/ ConstructWithOptions
    \/ \E deprecation \in Deprecations, activeDeprecation \in BOOLEAN :
           WarnDeprecation(deprecation, activeDeprecation)

SpecDeprecation == InitDeprecation /\ [][NextDeprecation]_vars

Next ==
    \/ BuildStart
    \/ \E w \in work : ResolveDone(w)
    \/ \E w \in work : LoadDone(w)
    \/ ParseModulesDone
    \/ SetAnalyse
    \/ Link
    \/ IncludeStatements
    \/ GenerateChunks
    \/ BuildReturn

Spec == Init /\ [][Next]_vars

\* build() with includeStatements taken one loop turn at a time, over the
\* module graphs of at most MaxStepRefs references.  A pass is synchronous
\* code: once includeStatements has seeded, its next turn runs.
WithinStepRefs ==
    Len(unresolvedEntries) + Len(manualChunks) + EdgesUsed <= MaxStepRefs

NextSteps ==
    \/ BuildStart /\ WithinStepRefs'
    \/ \E w \in work : ResolveDone(w)
    \/ \E w \in work : LoadDone(w) /\ WithinStepRefs'
    \/ ParseModulesDone
    \/ SetAnalyse
    \/ Link
    \/ SeedEntries
    \/ TreeshakingPass
    \/ IncludeAllInBundle
    \/ GenerateChunks
    \/ BuildReturn

SpecSteps ==
    Init /\ [][NextSteps]_vars /\ WF_vars(TreeshakingPass \/ IncludeAllInBundle)

\* build() up to includeStatements, and includeStatements applied once more
NextTwice ==
    \/ BuildStart
    \/ \E w \in work : ResolveDone(w)
    \/ \E w \in work : LoadDone(w)
    \/ ParseModulesDone
    \/ SetAnalyse
    \/ Link
    \/ IncludeStatements
    \/ IncludeStatementsAgain

SpecTwice == Init /\ [][NextTwice]_vars
\* ------------------------------------------------------------------- claims
PhaseRank == [p \in {"LOAD_AND_PARSE", "ANALYSE", "GENERATE"} |->
                 IF p = "LOAD_AND_PARSE" THEN 0 ELSE IF p = "ANALYSE" THEN 1 ELSE 2]

\* C1: during build() the phase only moves forward LOAD_AND_PARSE -> ANALYSE
\* -> GENERATE: the loader runs in LOAD_AND_PARSE, the phase is ANALYSE from
\* before link until generateChunks is over, includeStatements follows link
\* and generateChunks follows includeStatements, and the phase is GENERATE
\* whenever build has returned its chunks.
C1_PhaseOrder ==
    /\ [](pc = "loading" => phase = "LOAD_AND_PARSE")
    /\ [](pc \in {"analyse", "linked", "included", "chunked"} => phase = "ANALYSE")
    /\ [](pc = "returned" => phase = "GENERATE")
    /\ [][/\ PhaseRank[phase'] >= PhaseRank[phase]
          /\ pc' = "linked" => pc = "analyse" /\ phase = "ANALYSE"
          /\ pc' = "included" => pc = "linked"
          /\ pc' = "chunked" => pc = "included"
          /\ pc' = "returned" => pc = "chunked"]_vars

C1_Witness ==
    /\ pc = "returned"
    /\ phase = "GENERATE"
    /\ Len(returned) >= 2
    /\ treeshakingPasses >= 2

\* C2: when loading yields zero entry modules the build fails: nothing is
\* returned, link, includeStatements and generateChunks never run (modules
\* stays empty, no warning, no option of theirs is read, no chunk is made)
\* and the phase stays LOAD_AND_PARSE.
C2_EmptyInputFatal ==
    (pc \notin {"constructed", "loading"} /\ unresolvedEntries = <<>>) =>
        /\ pc = "failed"
        /\ phase = "LOAD_AND_PARSE"
        /\ returned = <<>> /\ chunks = <<>>
        /\ modules = <<>> /\ warnings = <<>>
        /\ treeshakingOptions = NotRead /\ treeshakingPasses = 0
        /\ preserveModules = NotRead /\ inlineDynamicImports = NotRead

C2_Witness ==
    /\ pc = "failed"
    /\ unresolvedEntries = <<>>
    /\ Len(moduleById) >= 2

StaticallyReaches(a, b) == b \in ReachFrom(sources[a] \cap ModuleIds, {}, {})

\* C3: after link, for all modules A and B of `modules` where A statically
\* imports B and B does not lead back to A over static imports, B comes
\* before A in `modules`.
C3_ExecutionOrder ==
    pc \in {"linked", "included", "chunked", "returned"} =>
        \A A \in Range(modules), B \in Range(modules) :
            (B \in sources[A] /\ ~StaticallyReaches(B, A)) =>
                PositionIn(modules, B) < PositionIn(modules, A)

C3_Witness ==
    /\ pc = "linked"
    /\ warnings # <<>>
    /\ \E A \in Range(modules), B \in Range(modules) :
           /\ B \in sources[A] /\ ~StaticallyReaches(B, A)
           /\ PositionIn(IdsOfType(moduleById, "Module"), A)
                  < PositionIn(IdsOfType(moduleById, "Module"), B)

NonFacadesWith(cs, m) ==
    {k \in 1..Len(cs) : ~cs[k].isFacade /\ m \in Range(cs[k].modules)}

Occurrences(seq, x) == Cardinality({i \in 1..Len(seq) : seq[i] = x})

\* C4: after build, in every chunking mode, every included module is a member
\* of exactly one non-facade chunk (once), and no facade chunk holds modules.
C4_OneChunkPerIncludedModule ==
    pc \in {"chunked", "returned"} =>
        /\ \A m \in ModuleIds :
               isIncluded(m) =>
                   /\ Cardinality(NonFacadesWith(chunks, m)) = 1
                   /\ \A k \in NonFacadesWith(chunks, m) :
                          Occurrences(chunks[k].modules, m) = 1
        /\ \A k \in 1..Len(chunks) : chunks[k].isFacade => chunks[k].modules = <<>>

C4_Witness ==
    /\ pc = "returned"
    /\ preserveModules = "off" /\ inlineDynamicImports = "off"
    /\ manualChunks # <<>>
    /\ Cardinality({m \in ModuleIds : isIncluded(m)}) >= 2
    /\ Cardinality({k \in 1..Len(chunks) : ~chunks[k].isFacade}) >= 2

\* C5: in the list build returns no facade comes before a non-facade chunk,
\* the non-facade chunks are in the order of their creation, and the facades
\* are in the order of their host chunks.
C5_ReturnOrder ==
    pc = "returned" =>
        \A i \in 1..Len(returned), j \in 1..Len(returned) :
            i < j =>
                /\ ~(returned[i].isFacade /\ ~returned[j].isFacade)
                /\ (~returned[i].isFacade /\ ~returned[j].isFacade)
                       => returned[i].created < returned[j].created
                /\ (returned[i].isFacade /\ returned[j].isFacade)
                       => returned[i].host <= returned[j].host

C5_Witness ==
    /\ pc = "returned"
    /\ \E i \in 1..Len(returned), j \in 1..Len(returned) :
           i < j /\ ~returned[i].isFacade /\ returned[j].isFacade
    /\ Cardinality({k \in 1..Len(returned) : returned[k].isFacade}) >= 2

EntryReachable(e) ==
    \E k \in 1..Len(returned) :
        \/ ~returned[k].isFacade /\ e \in Range(returned[k].modules)
        \/ /\ returned[k].isFacade /\ returned[k].facadeModule = e
           /\ e \in Range(returned[returned[k].host].modules)

\* C6 as stated: after a build that succeeds there are at least as many
\* chunks as entries of the input, and every entry is in a regular chunk or
\* has a facade pointing at its chunk.
C6_AsStated ==
    pc = "returned" =>
        /\ Len(returned) >= Len(unresolvedEntries)
        /\ \A e \in Range(entryModules) : EntryReachable(e)

\* C6: after a build that succeeds there are at least as many chunks as
\* distinct entry modules (entries of the input that name the same module
\* count once), and every entry module is in a regular chunk or has a facade
\* pointing at its chunk.
C6_ChunksCoverEntryModules ==
    pc = "returned" =>
        /\ Len(returned) >= Cardinality(Range(unresolvedEntries))
        /\ Len(returned) >= Len(entryModules)
        /\ \A e \in Range(unresolvedEntries) : EntryReachable(e)

C6_Witness ==
    /\ pc = "returned"
    /\ Len(unresolvedEntries) = 2
    /\ Len(entryModules) = 1
    /\ Len(returned) = 1
    /\ \A e \in Range(unresolvedEntries) : EntryReachable(e)

\* C7: getCache deletes exactly the plugin cache entries whose access counter
\* is >= cacheExpiry; every entry whose counter is < cacheExpiry stays, with
\* its counter and its value unchanged, and no entry appears.
C7_EvictAtExpiry ==
    [][(GetCache /\ hasPluginCache) =>
          /\ \A e \in Entries(pluginCache) :
                 IF Counter(pluginCache, e) >= cacheExpiry
                 THEN e \notin Entries(pluginCache')
                 ELSE /\ e \in Entries(pluginCache')
                      /\ Counter(pluginCache', e) = Counter(pluginCache, e)
                      /\ Value(pluginCache', e) = Value(pluginCache, e)
          /\ Entries(pluginCache') \subseteq Entries(pluginCache)]_vars

C7_Witness ==
    /\ hasSnapshot /\ hasPluginCache
    /\ builds = 1 /\ accesses = 0
    /\ \E e \in untouched, f \in untouched :
           /\ e[1] = f[1]
           /\ e \notin Entries(pluginCache)
           /\ Counter(firstCounter, e) + 1 >= cacheExpiry
           /\ f \in Entries(pluginCache)
           /\ Counter(pluginCache, f) = Counter(firstCounter, f) + 1

\* C8 as stated: the entries getCache evicts are those whose access counter
\* is strictly greater than the expiry, and only those.
C8_AsStated ==
    [][(GetCache /\ hasPluginCache) =>
          Entries(pluginCache') =
              {e \in Entries(pluginCache) : ~(Counter(pluginCache, e) > cacheExpiry)}]_vars

\* C8: the entries getCache evicts are those whose access counter has reached
\* the expiry (greater than or equal to it), and only those: the entries of
\* the snapshot are the entries whose counter was below the expiry.
C8_EvictReached ==
    [][(GetCache /\ hasPluginCache) =>
          Entries(pluginCache') =
              {e \in Entries(pluginCache) : Counter(pluginCache, e) < cacheExpiry}]_vars

C8_Witness ==
    /\ hasSnapshot /\ hasPluginCache
    /\ builds = 1 /\ accesses = 0
    /\ \E e \in untouched, f \in untouched :
           /\ e[1] # f[1]
           /\ e \notin Entries(pluginCache)
           /\ Counter(firstCounter, e) + 1 = cacheExpiry
           /\ f \in Entries(pluginCache)

\* C9: constructing a Graph with a plugin cache adds exactly one to the
\* counter of every entry of every plugin and no step other than a plugin's
\* own access changes a counter; so along a chain of builds, each constructed
\* from the last snapshot, an entry no plugin touches has gained one per
\* construction, is in no snapshot once its counter has reached cacheExpiry,
\* and once gone stays gone.
C9_CounterPerBuild ==
    /\ [][(builds' = builds + 1 /\ hasPluginCache') =>
             /\ Entries(pluginCache') = Entries(pluginCache)
             /\ \A e \in Entries(pluginCache) :
                    /\ Counter(pluginCache', e) = Counter(pluginCache, e) + 1
                    /\ Value(pluginCache', e) = Value(pluginCache, e)]_vars
    /\ [][(builds' = builds /\ accesses' = accesses) =>
             \A e \in Entries(pluginCache) \cap Entries(pluginCache') :
                 Counter(pluginCache', e) = Counter(pluginCache, e)]_vars
    /\ [](\A e \in untouched \cap Entries(pluginCache) :
             Counter(pluginCache, e) = Counter(firstCounter, e) + increments)
    /\ []((hasSnapshot /\ hasPluginCache) =>
             \A e \in untouched \cap Entries(pluginCache) :
                 Counter(firstCounter, e) + increments < cacheExpiry)
    /\ [][\A e \in untouched' :
             e \notin Entries(pluginCache) => e \notin Entries(pluginCache')]_vars

C9_Witness ==
    /\ builds = 2 /\ increments = 2
    /\ hasPluginCache
    /\ \E e \in untouched, f \in untouched :
           /\ e \in Entries(pluginCache)
           /\ Counter(pluginCache, e) = Counter(firstCounter, e) + 2
           /\ f \notin Entries(pluginCache)

\* C10: under every interleaving of the resolve and load work items of one
\* build, load(id) is called at most once for each id, an id has at most one
\* record in moduleById, that record is created once, and an id that has a
\* record keeps it, a Module staying a Module and an ExternalModule staying
\* an ExternalModule.
C10_LoadOnce ==
    /\ [](\A id \in AllIds :
             /\ loadCalls[id] <= 1
             /\ created[id] <= 1
             /\ Cardinality({i \in 1..Len(moduleById) : moduleById[i].id = id}) <= 1
             /\ Has(id) => TypeOf(id) \in {"Module", "ExternalModule"})
    /\ [][\A id \in AllIds :
             Has(id) => (Has(id)' /\ TypeOf(id)' = TypeOf(id))]_vars

C10_Witness ==
    /\ pc = "loading"
    /\ \E v \in work, w \in work :
           /\ v # w
           /\ v.tgt = w.tgt
           /\ v.st = "loading" /\ w.st = "resolving"
           /\ loadCalls[w.tgt] = 1
    /\ \E id \in AllIds : Has(id) /\ TypeOf(id) = "ExternalModule"

LastCall == deprecationCalls'[Len(deprecationCalls')]

\* C11 as stated: every call of warnDeprecation either, in non-strict mode,
\* hands the deprecation warning to the warning handler once, or, in strict
\* mode, raises a fatal error without a warning.
C11_AsStated ==
    [][Len(deprecationCalls') = Len(deprecationCalls) + 1 =>
          IF strictDeprecations'
          THEN pc' = "failed" /\ warnings' = warnings
          ELSE /\ pc' # "failed"
               /\ warnings' = Append(warnings, errDeprecation(LastCall.deprecation))]_vars

\* C11: a call of warnDeprecation in strict mode raises a fatal error without
\* a warning; in non-strict mode it hands the deprecation warning to the
\* warning handler once when the deprecation is active and does nothing
\* when it is not.
C11_WarnOrRaise ==
    [][Len(deprecationCalls') = Len(deprecationCalls) + 1 =>
          IF strictDeprecations'
          THEN pc' = "failed" /\ warnings' = warnings
          ELSE /\ pc' # "failed"
               /\ warnings' = IF LastCall.activeDeprecation
                              THEN Append(warnings, errDeprecation(LastCall.deprecation))
                              ELSE warnings]_vars

C11_Witness ==
    /\ ~strictDeprecations
    /\ pc = "constructed"
    /\ Len(deprecationCalls) = 3
    /\ deprecationCalls[1] = DeprecationCall(PureExternalModules, TRUE)
    /\ ~deprecationCalls[2].activeDeprecation
    /\ deprecationCalls[3].activeDeprecation
    /\ Len(warnings) = 2

InclusionOver == pc \in {"included", "chunked", "returned"}

\* C12: when includeStatements has returned with tree-shaking on, every
\* included Variable has its declaration included and every Variable that
\* declaration reads is included, and the exports of every module an
\* included import() names are included; this holds too when the Variable
\* read belongs to a module the pass had already visited.
C12_TreeshakingSound ==
    (InclusionOver /\ treeshakingOptions = "on") =>
        /\ \A v \in variableIncluded :
               /\ v \in declarationIncluded
               /\ (sources[v] \cap ModuleIds) \subseteq variableIncluded
        /\ \A i \in importIncluded : i[2] \in variableIncluded

C12_Witness ==
    /\ pc = "included" /\ treeshakingOptions = "on"
    /\ treeshakingPasses >= 2
    /\ \E A \in variableIncluded, B \in variableIncluded :
           /\ B \in sources[A]
           /\ PositionIn(modules, B) < PositionIn(modules, A)
           /\ preserveSignature[B] = NotRead
    /\ \E m \in Range(modules) : m \notin variableIncluded

\* C13: with tree-shaking on the inclusion loop runs a first pass whatever
\* the flag says, runs a further pass exactly when the pass just finished
\* set needsTreeshakingPass, never un-includes anything, leaves after a pass
\* that changed nothing, and always comes to its end.
C13_LoopTerminates ==
    /\ [][(pc = "seeded" /\ treeshakingOptions' = "on") => treeshakingPasses' = 1]_vars
    /\ [][treeshakingPasses' = treeshakingPasses + 1 =>
             /\ (pc' = "pass") <=> needsTreeshakingPass'
             /\ pc' \in {"pass", "included"}
             /\ pc' = "included" =>
                    /\ variableIncluded' = variableIncluded
                    /\ declarationIncluded' = declarationIncluded
                    /\ importIncluded' = importIncluded
                    /\ isExecuted' = isExecuted]_vars
    /\ [][/\ variableIncluded \subseteq variableIncluded'
          /\ declarationIncluded \subseteq declarationIncluded'
          /\ importIncluded \subseteq importIncluded'
          /\ isExecuted \subseteq isExecuted']_vars
    /\ (pc \in {"seeded", "pass"}) ~> (pc = "included")

C13_Witness ==
    /\ pc = "included" /\ treeshakingOptions = "on"
    /\ treeshakingPasses >= 3
    /\ ~needsTreeshakingPass

\* C14: running includeStatements with tree-shaking a second time, on the
\* outcome of the first run, leaves the included set as it was and takes one
\* single pass.
C14_Idempotent ==
    (pc = "included again" /\ treeshakingOptions = "on") =>
        /\ variableIncluded = firstInclusion[1].variableIncluded
        /\ declarationIncluded = firstInclusion[1].declarationIncluded
        /\ importIncluded = firstInclusion[1].importIncluded
        /\ isExecuted = firstInclusion[1].isExecuted
        /\ includedDynamicImporters = firstInclusion[1].includedDynamicImporters
        /\ treeshakingPasses = firstInclusion[1].passes + 1

C14_Witness ==
    /\ pc = "included again" /\ treeshakingOptions = "on"
    /\ firstInclusion[1].passes >= 2
    /\ Cardinality(variableIncluded) >= 2
    /\ importIncluded # {}

\* C17: the seeding of includeStatements, before the first pass, treats each
\* entry module in one of two ways: all exports of an entry whose
\* preserveSignature is not false are included; an entry whose
\* preserveSignature is false is marked executed with everything it imports,
\* and no export of it is included.  Nothing else is included by then.
C17_Seeding ==
    pc = "seeded" =>
        /\ \A e \in Range(entryModules) :
               IF preserveSignature[e] # "false"
               THEN e \in variableIncluded
               ELSE /\ StaticClosure({e}, {}) \subseteq isExecuted
                    /\ e \notin variableIncluded
        /\ variableIncluded \subseteq Range(entryModules)
        /\ declarationIncluded = {} /\ importIncluded = {}
        /\ treeshakingPasses = 0

C17_Witness ==
    /\ pc = "seeded"
    /\ \E e \in Range(entryModules), f \in Range(entryModules) :
           /\ preserveSignature[e] = "strict" /\ e \in variableIncluded
           /\ preserveSignature[f] = "false" /\ f \notin variableIncluded
           /\ sources[f] \cap ModuleIds # {}
           /\ sources[f] \cap ModuleIds \subseteq isExecuted

ChunkingOver == pc \in {"chunked", "returned"}

NonFacades(cs) == {k \in 1..Len(cs) : ~cs[k].isFacade}

SingletonChunks(cs, m) ==
    {k \in NonFacades(cs) : cs[k].modules = <<m>> /\ cs[k].entryModules = <<m>>}

\* C15 as stated: in preserve-modules mode the non-facade chunks are one per
\* included module, each holding that module alone as its only entry module,
\* and a module that is not included has no chunk.
C15_AsStated ==
    (ChunkingOver /\ preserveModules = "on") =>
        /\ \A m \in ModuleIds :
               isIncluded(m) => Cardinality(SingletonChunks(chunks, m)) = 1
        /\ \A k \in NonFacades(chunks) :
               \E m \in ModuleIds : isIncluded(m) /\ k \in SingletonChunks(chunks, m)

KeptAsChunk(m) ==
    isIncluded(m) \/ m \in Range(entryModules) \/ includedDynamicImporters[m] # {}

\* C15: in preserve-modules mode the non-facade chunks are one per module
\* that is included, is an entry point or has an included dynamic importer,
\* each holding that module alone as its only entry module; any other module
\* has no chunk.
C15_PreserveModules ==
    (ChunkingOver /\ preserveModules = "on") =>
        /\ \A m \in ModuleIds :
               KeptAsChunk(m) => Cardinality(SingletonChunks(chunks, m)) = 1
        /\ \A k \in NonFacades(chunks) :
               \E m \in ModuleIds : KeptAsChunk(m) /\ k \in SingletonChunks(chunks, m)

C15_Witness ==
    /\ pc = "returned" /\ preserveModules = "on"
    /\ \E e \in Range(entryModules) :
           ~isIncluded(e) /\ SingletonChunks(chunks, e) # {}
    /\ \E m \in ModuleIds :
           /\ m \notin Range(entryModules) /\ isIncluded(m)
           /\ SingletonChunks(chunks, m) # {}
    /\ \E n \in Range(modules) : \A k \in NonFacades(chunks) : chunks[k].modules # <<n>>

\* C16: in inline-dynamic mode (preserve-modules off) generateChunks makes
\* exactly one non-facade chunk, which holds every included module, whatever
\* manual chunks were declared.
C16_InlineOneChunk ==
    (ChunkingOver /\ preserveModules = "off" /\ inlineDynamicImports = "on") =>
        /\ Cardinality(NonFacades(chunks)) = 1
        /\ \A k \in NonFacades(chunks) :
               \A m \in ModuleIds : isIncluded(m) => m \in Range(chunks[k].modules)

C16_Witness ==
    /\ pc = "returned"
    /\ preserveModules = "off" /\ inlineDynamicImports = "on"
    /\ manualChunks # <<>>
    /\ isIncluded(manualChunks[1])
    /\ \E m \in ModuleIds : m # manualChunks[1] /\ isIncluded(m)
    /\ importIncluded # {}

LinkOver == pc \in {"linked", "included", "chunked", "returned"}

CallsOf(op) == {i \in 1..Len(linkLog) : linkLog[i].op = op}

\* C18: link hands exactly one CIRCULAR_DEPENDENCY warning to the handler for
\* each cycle path the execution order analysis found, carrying the whole
\* path, a closed chain of static imports (a module importing itself gives
\* the cycle of that one module); every warning comes before the first
\* bindReferences; and link goes on after the warnings: it stores the
\* execution order and binds the references of each of its modules.
C18_CycleWarnings ==
    LinkOver =>
        LET res == analyseModuleExecution(entryModules)
        IN /\ Len(warnings) = Len(res.cyclePaths)
           /\ \A i \in 1..Len(warnings) :
                  /\ warnings[i].code = "CIRCULAR_DEPENDENCY"
                  /\ warnings[i].cycle = res.cyclePaths[i]
                  /\ Len(warnings[i].cycle) >= 2
                  /\ warnings[i].cycle[1] = warnings[i].cycle[Len(warnings[i].cycle)]
                  /\ \A n \in 1..(Len(warnings[i].cycle) - 1) :
                         warnings[i].cycle[n + 1] \in sources[warnings[i].cycle[n]]
           /\ \A m \in Range(modules) :
                  m \in sources[m] =>
                      Cardinality({i \in 1..Len(warnings) :
                                      warnings[i].cycle = <<m, m>>}) = 1
           /\ Cardinality(CallsOf("warn")) = Len(res.cyclePaths)
           /\ \A i \in CallsOf("warn"), n \in CallsOf("bindReferences") : i < n
           /\ modules = res.orderedModules
           /\ Cardinality(CallsOf("bindReferences")) = Len(modules)
           /\ \A m \in Range(modules) :
                  \E n \in CallsOf("bindReferences") : linkLog[n].arg = <<m>>

C18_Witness ==
    /\ pc = "linked"
    /\ Len(warnings) >= 2
    /\ \E i \in 1..Len(warnings) :
           /\ warnings[i].cycle = <<entryModules[1], entryModules[1]>>
    /\ \E i \in 1..Len(warnings) : Len(warnings[i].cycle) >= 3
    /\ Cardinality(CallsOf("bindReferences")) >= 2

ModulesOfMap == IdsOfType(moduleById, "Module")
ExternalsOfMap == IdsOfType(moduleById, "ExternalModule")

\* C19 as stated: after parseModules `modules` and `externalModules`
\* partition the records of moduleById, each record once, and after link
\* `modules` is a permutation of the Modules of moduleById: link drops none
\* and adds none, a module loaded through a manual chunk only included.
C19_AsStated ==
    /\ pc \in {"parsed", "analyse"} =>
           /\ modules = ModulesOfMap
           /\ externalModules = ExternalsOfMap
    /\ LinkOver =>
           /\ Range(modules) = Range(ModulesOfMap)
           /\ Len(modules) = Len(ModulesOfMap)
           /\ externalModules = ExternalsOfMap

ImportsOf(id) == IF id \in ModuleIds THEN sources[id] \cup dynamicImports[id] ELSE {}

RECURSIVE ImportClosure(_, _)
ImportClosure(todo, seen) ==
    IF todo = {} THEN seen
    ELSE LET id == CHOOSE x \in todo : TRUE
         IN ImportClosure((todo \ {id}) \cup (ImportsOf(id) \ (seen \cup {id})),
                          seen \cup {id})

\* C20: under every interleaving of the resolve and load completions the
\* phase leaves LOAD_AND_PARSE, and link starts, only with an empty work
\* queue; when parseModules has returned, every id that the entries and the
\* manual chunk seeds reach over static and dynamic imports has its record
\* in moduleById and is in `modules` or, if external, in `externalModules`.
C20_LoaderDrained ==
    /\ (phase # "LOAD_AND_PARSE" \/ pc \in {"parsed", "analyse"}) => work = {}
    /\ pc \in {"parsed", "analyse"} =>
           \A id \in ImportClosure(Range(unresolvedEntries) \cup Range(manualChunks), {}) :
               /\ Has(id)
               /\ IF id = ExternalId THEN id \in Range(externalModules)
                  ELSE id \in Range(modules)

C20_Witness ==
    /\ pc = "analyse" /\ phase = "ANALYSE"
    /\ manualChunks # <<>>
    /\ manualChunks[1] \notin ImportClosure(Range(unresolvedEntries), {})
    /\ ExternalId \in ImportClosure(Range(unresolvedEntries), {})
    /\ \E m \in ModuleIds : dynamicImports[m] # {}
    /\ manualChunks[1] \in Range(modules)

====
